---- MODULE Spec2Model ----
(***************************************************************************)
(* State-machine model of the monitoring views of the CRM admin dashboard: *)
(*   SystemStatusSettings  (src/src/components/settings/SystemStatusSettings.tsx) *)
(*   CronJobMonitoring     (src/src/components/settings/CronJobMonitoring.tsx)    *)
(*   EdgeFunctionMonitor   (src/vite.config.ts, second half)                *)
(* Time is counted in ticks, TicksPerHour ticks to the hour, so that ages  *)
(* that are not whole hours exist.                                         *)
(***************************************************************************)
EXTENDS Integers, Sequences, FiniteSets, TLC

\* ---------------------------------------------------------------- bounds
TicksPerHour == 2
MaxAgeHours == 170
MaxFutureHours == 2
MaxClock == 2
MaxInflight == 2
MaxFetches == 3
NumTables == 2
MaxCount == 1
MaxProbes == 2

\* ------------------------------------------------------- numbers and dates
\* A JavaScript number that may be NaN.
NaN == [nan |-> TRUE, v |-> 0]
Num(n) == [nan |-> FALSE, v |-> n]

\* JavaScript <, > on numbers: every comparison with NaN is false.
JsLt(a, b) == ~a.nan /\ ~b.nan /\ a.v < b.v
JsGt(a, b) == ~a.nan /\ ~b.nan /\ a.v > b.v

\* Timestamp column values as the data source returns them.
TsNull == [kind |-> "null", t |-> 0]
TsEmpty == [kind |-> "empty", t |-> 0]
TsMalformed == [kind |-> "malformed", t |-> 0]
TsIso(t) == [kind |-> "iso", t |-> t]

\* JavaScript truthiness of a string | null value.
Truthy(ts) == ts.kind \notin {"null", "empty"}

\* new Date(str).getTime(): the instant of a valid ISO string, NaN otherwise.
DateParse(ts) == IF ts.kind = "iso" THEN Num(ts.t) ELSE NaN

\* Math.trunc(a / b) for b > 0: rounds toward zero.
TruncDiv(a, b) == IF a >= 0 THEN a \div b ELSE -((-a) \div b)

\* date-fns differenceInHours(new Date(), new Date(str)): whole hours,
\* truncated toward zero; NaN for an invalid date.
differenceInHours(nowT, ts) ==
    LET d == DateParse(ts)
    IN IF d.nan THEN NaN ELSE Num(TruncDiv(nowT - d.v, TicksPerHour))

\* (Date.now() - date.getTime()) / (1000 * 60 * 60) < h, h a whole number:
\* the quotient is fractional, so the comparison is on the exact difference.
HoursLt(nowT, ts, h) ==
    LET d == DateParse(ts)
    IN ~d.nan /\ (nowT - d.v) < h * TicksPerHour

\* A row of a table: Null (no row) or a record with its timestamp field.
NoRow == [present |-> FALSE, field |-> TsNull]
Row(ts) == [present |-> TRUE, field |-> ts]

\* ------------------------------------------------------------ data source
\* The result of a "latest row" read: {data, error}.  failure is how the read
\* went: "none", or "other" for any error but PGRST116 (data is then null).
\* single is TRUE for .limit(1).single(), which reports an empty table as
\* error PGRST116 with data null; without it an empty table is data = [].
QueryResult(table, failure, single) ==
    IF failure # "none" THEN [error |-> "other", data |-> NoRow]
    ELSE IF table.present THEN [error |-> "none", data |-> table]
    ELSE [error |-> (IF single THEN "PGRST116" ELSE "none"), data |-> NoRow]

\* ------------------------------------------------------------ classifiers
\* SystemStatusSettings.fetchSystemStats, keep-alive block: reads only
\* {data} of the result.
SysKeepAlive_Lt24(res, nowT) ==
    LET keepAliveData == res.data
    IN IF keepAliveData.present /\ Truthy(keepAliveData.field)
       THEN LET hoursAgo == differenceInHours(nowT, keepAliveData.field)
            IN [keepAliveStatus |->
                   IF JsLt(hoursAgo, Num(24)) THEN "active"
                   ELSE IF JsLt(hoursAgo, Num(48)) THEN "warning"
                   ELSE "error",
                lastKeepAlive |-> keepAliveData.field]
       ELSE [keepAliveStatus |-> "unknown", lastKeepAlive |-> TsNull]

SysKeepAlive(res, nowT) ==
    LET keepAliveData == res.data
    IN IF keepAliveData.present /\ Truthy(keepAliveData.field)
       THEN LET hoursAgo == differenceInHours(nowT, keepAliveData.field)
            IN [keepAliveStatus |->
                   IF JsLt(hoursAgo, Num(25)) THEN "active"
                   ELSE IF JsLt(hoursAgo, Num(48)) THEN "warning"
                   ELSE "error",
                lastKeepAlive |-> keepAliveData.field]
       ELSE [keepAliveStatus |-> "unknown", lastKeepAlive |-> TsNull]

\* hoursAgo: null of the KeepAliveStatus interface.
HoursNull == [nan |-> FALSE, v |-> -1, null |-> TRUE]
HoursOf(h) == [nan |-> h.nan, v |-> h.v, null |-> FALSE]

\* CronJobMonitoring.fetchKeepAliveStatus: the value passed to setKeepAlive
\* for a query result (the body of the try block).
CronKeepAlive_NoRowError(res, nowT) ==
    IF res.error \notin {"none", "PGRST116"}
    THEN [lastPing |-> TsNull, status |-> "error", hoursAgo |-> HoursNull]
    ELSE IF res.data.present /\ Truthy(res.data.field)
    THEN LET lastPing == res.data.field
             hoursAgo == differenceInHours(nowT, lastPing)
         IN [lastPing |-> lastPing,
             status |-> IF JsGt(hoursAgo, Num(48)) THEN "error"
                        ELSE IF JsGt(hoursAgo, Num(25)) THEN "warning"
                        ELSE "active",
             hoursAgo |-> HoursOf(hoursAgo)]
    ELSE [lastPing |-> TsNull, status |-> "error", hoursAgo |-> HoursNull]

CronKeepAlive(res, nowT) ==
    IF res.error \notin {"none", "PGRST116"}
    THEN [lastPing |-> TsNull, status |-> "error", hoursAgo |-> HoursNull]
    ELSE IF res.data.present /\ Truthy(res.data.field)
    THEN LET lastPing == res.data.field
             hoursAgo == differenceInHours(nowT, lastPing)
         IN [lastPing |-> lastPing,
             status |-> IF JsGt(hoursAgo, Num(48)) THEN "error"
                        ELSE IF JsGt(hoursAgo, Num(25)) THEN "warning"
                        ELSE "active",
             hoursAgo |-> HoursOf(hoursAgo)]
    ELSE [lastPing |-> TsNull, status |-> "unknown", hoursAgo |-> HoursNull]

\* EdgeFunctionMonitor getStatus(data, field): data?.data?.[0] is the first
\* row of the result, activityDate its requested field; lastActivity is
\* absent (TsNull here) in the fall-through return.
getStatus_Lt169(res, nowT) ==
    LET firstRow == res.data
    IN IF firstRow.present /\ Truthy(firstRow.field)
       THEN [status |-> IF HoursLt(nowT, firstRow.field, 169) THEN "active" ELSE "unknown",
             lastActivity |-> firstRow.field]
       ELSE [status |-> "unknown", lastActivity |-> TsNull]

getStatus(res, nowT) ==
    LET firstRow == res.data
    IN IF firstRow.present /\ Truthy(firstRow.field)
       THEN [status |-> IF HoursLt(nowT, firstRow.field, 168) THEN "active" ELSE "unknown",
             lastActivity |-> firstRow.field]
       ELSE [status |-> "unknown", lastActivity |-> TsNull]

\* ------------------------------------------------------------------ state
VARIABLES
    now,        \* the wall clock (new Date(), Date.now()), in ticks
    keepAliveTable, \* latest row of keep_alive: NoRow or Row('Able to read DB')
    db,         \* the other tables read: row counts, latest backup, profiles count
    probe,      \* the latest classifier calls at the current instant, oldest first
    view,       \* what this session shows: "sys", "cron", "edge" or "modal"
    cron,       \* CronJobMonitoring: component state, timers and work in flight
    sys,        \* SystemStatusSettings: component state, timers and fetch cycles
    edge,       \* EdgeFunctionMonitor: component state and work in flight
    health,     \* a stats value and what getHealthStatus made of it
    modal       \* DashboardCustomizeModal: props, local state, latest callback

viewVars == <<view, cron, sys, edge, health, modal>>
vars == <<now, keepAliveTable, db, probe, view, cron, sys, edge, health, modal>>

\* Work in flight that belongs to the mounted instance (live) or to an
\* instance that was unmounted meanwhile (orphan): an orphan's set-state
\* calls reach no mounted component.
NoWork == [live |-> 0, orphan |-> 0]
Total(w) == w.live + w.orphan
Orphaned(w) == [live |-> 0, orphan |-> w.live + w.orphan]

\* useState initial values of CronJobMonitoring, no timer, nothing in flight.
CronInitState ==
    [mounted |-> FALSE,
     keepAlive |-> [lastPing |-> TsNull, status |-> "unknown", hoursAgo |-> HoursNull],
     loading |-> TRUE,
     testing |-> FALSE,
     autoRefresh |-> FALSE,
     intervals |-> 0,      \* live setInterval timers
     fetches |-> NoWork,   \* fetchKeepAliveStatus calls awaiting their query
     tests |-> NoWork,     \* handleTestKeepAlive calls awaiting functions.invoke
     timeouts |-> NoWork,  \* pending setTimeout(fetchKeepAliveStatus, 1000)
     lastFetch |-> [result |-> "unfetched",
                    before |-> [lastPing |-> TsNull, status |-> "unknown", hoursAgo |-> HoursNull]],
                           \* how the query of the latest finished fetchKeepAliveStatus
                           \* went (error code, "none", or "throw") and the keepAlive
                           \* value it replaced
     lastTest |-> [outcome |-> "none", success |-> 0, error |-> 0]]
                           \* toasts of the latest finished handleTestKeepAlive

\* TABLE_CONFIG names, in order; the model reads the first NumTables.
TABLE_CONFIG ==
    <<"leads", "contacts", "accounts", "deals", "meetings", "tasks",
      "email_history", "profiles", "notifications">>

Tables == 1 .. NumTables

\* stats === null.
NoStats == [published |-> FALSE]

\* useState initial values of SystemStatusSettings, no timer, nothing in flight.
SysInitState ==
    [mounted |-> FALSE,
     stats |-> NoStats,
     loading |-> TRUE,
     error |-> "null",
     lastRefresh |-> 0,
     autoRefresh |-> FALSE,
     intervals |-> 0,     \* live setInterval timers
     cycles |-> <<>>,     \* fetchSystemStats calls in flight, oldest first
     orphans |-> 0,       \* calls in flight of instances unmounted meanwhile
     started |-> 0]       \* fetchSystemStats calls so far

\* The three functions of the list EdgeFunctionMonitor builds that the model
\* follows: 'keep-alive' (status from getStatus), 'restore-backup' (always
\* 'unknown') and 'sync-email-bounces' (always 'deprecated').
EdgeFunctions == {"keep-alive", "restore-backup", "sync-email-bounces"}

\* functions === [].
NoFunctions == [published |-> FALSE]

\* useState initial values of EdgeFunctionMonitor, nothing in flight.
EdgeInitState ==
    [mounted |-> FALSE,
     functions |-> NoFunctions,
     loading |-> TRUE,
     testing |-> "null",
     lastRefresh |-> 0,
     fetches |-> NoWork,   \* fetchFunctionStatuses calls awaiting Promise.all
     tests |-> NoWork,     \* handleTestFunction calls awaiting functions.invoke
     inFlight |-> [f \in EdgeFunctions |-> 0],
                           \* those of this instance, by function invoked
     timeouts |-> NoWork,  \* pending setTimeout(fetchFunctionStatuses, 1000)
     lastFetch |-> "none", \* how the latest finished fetchFunctionStatuses went
     lastTest |-> [outcome |-> "none", success |-> 0, error |-> 0]]
                           \* toasts of the latest finished handleTestFunction

\* The tables besides keep_alive, as the session finds them: the row count
\* of each TABLE_CONFIG table, whether backups holds a row, and the row
\* count of profiles.
EmptyDb == [counts |-> [t \in Tables |-> 0], backup |-> FALSE, users |-> 0]

\* No stats value examined yet.
NoHealth == [stats |-> NoStats, status |-> "none"]

\* DEFAULT_WIDGETS: the seven widget keys in default order (all visible).
DEFAULT_WIDGETS ==
    <<"leads", "contacts", "deals", "actionItems", "performance",
      "quickActions", "leadStatus">>

\* No callback prop called.
NoCall == [fn |-> "none", arg |-> <<>>]

\* DashboardCustomizeModal before it is mounted: useState([]) for widgets.
\* last is the latest event (mount, props, toggle, reset, save, cancel),
\* whether a props change found switches differing from the props, and
\* the callback prop the event called.
ModalInitState ==
    [mounted |-> FALSE,
     open |-> FALSE,
     visibleWidgets |-> {},
     isSaving |-> FALSE,
     widgets |-> <<>>,
     last |-> [event |-> "none", after |-> "none", dirty |-> FALSE, call |-> NoCall]]

\* ------------------------------------------------- classification on its own
\* Timestamp values a row can hold: null, '', a malformed string, and every
\* instant from MaxAgeHours in the past to MaxFutureHours in the future.
TsValues ==
    {TsNull, TsEmpty, TsMalformed}
      \cup {TsIso(t) : t \in (0 - MaxAgeHours * TicksPerHour) .. (MaxFutureHours * TicksPerHour)}

NoProbe == [sys |-> <<>>, cron |-> <<>>, edge |-> <<>>]

\* The record of calls with call p added: the latest MaxProbes are kept.
Probed(calls, p) ==
    IF Len(calls) < MaxProbes THEN Append(calls, p) ELSE Append(Tail(calls), p)

InitClassify ==
    /\ now = 0
    /\ keepAliveTable \in {NoRow} \cup {Row(ts) : ts \in TsValues}
    /\ db = EmptyDb
    /\ probe = NoProbe
    /\ view = "none"
    /\ cron = CronInitState
    /\ sys = SysInitState
    /\ edge = EdgeInitState
    /\ health = NoHealth
    /\ modal = ModalInitState

\* The clock advances; classifications of the earlier instant are dropped.
Tick ==
    /\ now < MaxClock
    /\ now' = now + 1
    /\ probe' = NoProbe
    /\ UNCHANGED <<keepAliveTable, db, viewVars>>

\* The keep-alive block of fetchSystemStats applied to a read of keep_alive.
ClassifySys ==
    \E failure \in {"none", "other"} :
        LET res == QueryResult(keepAliveTable, failure, TRUE)
        IN /\ probe' = [probe EXCEPT !.sys = Probed(@, [res |-> res, out |-> SysKeepAlive(res, now)])]
           /\ UNCHANGED <<now, keepAliveTable, db, viewVars>>

\* The try block of fetchKeepAliveStatus applied to a read of keep_alive.
ClassifyCron ==
    \E failure \in {"none", "other"} :
        LET res == QueryResult(keepAliveTable, failure, TRUE)
        IN /\ probe' = [probe EXCEPT !.cron = Probed(@, [res |-> res, out |-> CronKeepAlive(res, now)])]
           /\ UNCHANGED <<now, keepAliveTable, db, viewVars>>

\* getStatus(keepAliveResult, 'Able to read DB').
ClassifyEdge_Stateful ==
    \E failure \in {"none", "other"} :
        LET res == QueryResult(keepAliveTable, failure, FALSE)
            out == IF probe.edge # <<>> /\ probe.edge[Len(probe.edge)].out.status = "active"
                   THEN [status |-> "unknown", lastActivity |-> TsNull]
                   ELSE getStatus(res, now)
        IN /\ probe' = [probe EXCEPT !.edge = Probed(@, [res |-> res, out |-> out])]
           /\ UNCHANGED <<now, keepAliveTable, db, viewVars>>

ClassifyEdge ==
    \E failure \in {"none", "other"} :
        LET res == QueryResult(keepAliveTable, failure, FALSE)
        IN /\ probe' = [probe EXCEPT !.edge = Probed(@, [res |-> res, out |-> getStatus(res, now)])]
           /\ UNCHANGED <<now, keepAliveTable, db, viewVars>>

NextClassify == Tick \/ ClassifySys \/ ClassifyCron \/ ClassifyEdge

SpecClassify == InitClassify /\ [][NextClassify]_vars

\* ------------------------------------------ properties of the classifiers
\* A probe classified a successfully read row holding a valid timestamp.
ProbeValid(p) ==
    p.res.error = "none" /\ p.res.data.present /\ p.res.data.field.kind = "iso"

\* Age in ticks of the timestamp a probe classified, at the current instant.
ProbeAge(p) == now - p.res.data.field.t

ProbeSet(name) == {probe[name][i] : i \in DOMAIN probe[name]}

InWarningBand(p) ==
    ProbeValid(p) /\ ProbeAge(p) >= 25 * TicksPerHour /\ ProbeAge(p) < 48 * TicksPerHour

\* C1: every valid timestamp with 25h <= age < 48h is classified 'warning'
\* by the keep-alive classifier of SystemStatusSettings and by the one of
\* CronJobMonitoring.
C1_WarningFrom25To48 ==
    /\ \A p \in ProbeSet("sys") : InWarningBand(p) => p.out.keepAliveStatus = "warning"
    /\ \A p \in ProbeSet("cron") : InWarningBand(p) => p.out.status = "warning"

InErrorBand(p) == ProbeValid(p) /\ ProbeAge(p) >= 48 * TicksPerHour

\* C2: every valid timestamp with age >= 48h is classified 'error' by the
\* keep-alive classifier of SystemStatusSettings and by the one of
\* CronJobMonitoring.
C2_ErrorFrom48 ==
    /\ \A p \in ProbeSet("sys") : InErrorBand(p) => p.out.keepAliveStatus = "error"
    /\ \A p \in ProbeSet("cron") : InErrorBand(p) => p.out.status = "error"

InActiveBand(p) == ProbeValid(p) /\ ProbeAge(p) < 25 * TicksPerHour

\* C3: every valid timestamp with age < 25h, timestamps in the future
\* included, is classified 'active' by both keep-alive classifiers.
C3_ActiveBelow25 ==
    /\ \A p \in ProbeSet("sys") : InActiveBand(p) => p.out.keepAliveStatus = "active"
    /\ \A p \in ProbeSet("cron") : InActiveBand(p) => p.out.status = "active"

\* C3 witness: both classifiers have classified a timestamp in the last hour
\* below the threshold (24h <= age < 25h), and one in the future.
C3_Witness ==
    /\ \E p \in ProbeSet("sys") : InActiveBand(p) /\ ProbeAge(p) >= 24 * TicksPerHour
    /\ \E p \in ProbeSet("cron") : InActiveBand(p) /\ ProbeAge(p) >= 24 * TicksPerHour

C3_WitnessFuture ==
    /\ \E p \in ProbeSet("sys") : ProbeValid(p) /\ ProbeAge(p) < 0
    /\ \E p \in ProbeSet("cron") : ProbeValid(p) /\ ProbeAge(p) < 0

ProbeMalformed(p) ==
    p.res.error = "none" /\ p.res.data.present /\ p.res.data.field.kind = "malformed"

\* C4: a malformed, non-empty timestamp string is classified 'unknown' by
\* every classifier.
C4_MalformedIsUnknown ==
    /\ \A p \in ProbeSet("sys") : ProbeMalformed(p) => p.out.keepAliveStatus = "unknown"
    /\ \A p \in ProbeSet("cron") : ProbeMalformed(p) => p.out.status = "unknown"
    /\ \A p \in ProbeSet("edge") : ProbeMalformed(p) => p.out.status = "unknown"

\* The read succeeded (an empty table counts: PGRST116 under .single()) and
\* there is no row, or its timestamp field is null or ''.
ProbeMissing(p) ==
    /\ p.res.error \in {"none", "PGRST116"}
    /\ (~p.res.data.present \/ p.res.data.field.kind \in {"null", "empty"})

\* C5: a missing record, or a null or empty timestamp field, of a successful
\* read is classified 'unknown' by every classifier, with no timestamp kept.
C5_MissingIsUnknown ==
    /\ \A p \in ProbeSet("sys") : ProbeMissing(p) =>
          p.out = [keepAliveStatus |-> "unknown", lastKeepAlive |-> TsNull]
    /\ \A p \in ProbeSet("cron") : ProbeMissing(p) =>
          p.out = [lastPing |-> TsNull, status |-> "unknown", hoursAgo |-> HoursNull]
    /\ \A p \in ProbeSet("edge") : ProbeMissing(p) =>
          p.out = [status |-> "unknown", lastActivity |-> TsNull]

\* C5 witness: all three classifiers have classified a row whose timestamp
\* field is the empty string.
C5_Witness ==
    /\ keepAliveTable = Row(TsEmpty)
    /\ \A name \in {"sys", "cron", "edge"} : \E p \in ProbeSet(name) : ProbeMissing(p)

\* C6: getStatus is binary on 168 hours: a valid timestamp is 'active' when
\* its age is below 168h and 'unknown' from exactly 168h on; no other label
\* is ever returned.
C6_EdgeBinaryAt168 ==
    \A p \in ProbeSet("edge") :
        /\ p.out.status \in {"active", "unknown"}
        /\ ProbeValid(p) =>
             (p.out.status = "active" <=> ProbeAge(p) < 168 * TicksPerHour)

\* C6 witness: getStatus has classified a timestamp exactly 168 hours old.
C6_Witness ==
    \E p \in ProbeSet("edge") : ProbeValid(p) /\ ProbeAge(p) = 168 * TicksPerHour

\* ------------------------------------------------------ the views at work
\* One session shows one monitoring view; the views share no state.  The
\* data source holds one of a few keep_alive rows, the clock stands at 0.
SampleTs ==
    {TsNull, TsMalformed, TsIso(0), TsIso(0 - 25 * TicksPerHour),
     TsIso(0 - 48 * TicksPerHour), TsIso(0 - 49 * TicksPerHour)}

\* Two states of the data source for SystemStatusSettings: a fresh ping,
\* counts rising in TABLE_CONFIG order, a backup on record; and a ping 48
\* hours old, equal counts, no backup and no profile.
SysSamples ==
    {[keepAlive |-> Row(TsIso(0)),
      db |-> [counts |-> [t \in Tables |-> IF t = 1 THEN 0 ELSE MaxCount],
              backup |-> TRUE, users |-> MaxCount]],
     [keepAlive |-> Row(TsIso(0 - 48 * TicksPerHour)),
      db |-> [counts |-> [t \in Tables |-> MaxCount],
              backup |-> FALSE, users |-> 0]]}

EdgeSampleTs ==
    {TsNull, TsMalformed, TsIso(0), TsIso(1 - 168 * TicksPerHour),
     TsIso(0 - 168 * TicksPerHour)}

InitCron ==
    /\ now = 0
    /\ keepAliveTable \in {NoRow} \cup {Row(ts) : ts \in SampleTs}
    /\ db = EmptyDb
    /\ probe = NoProbe
    /\ view = "cron"
    /\ cron = CronInitState
    /\ sys = SysInitState
    /\ edge = EdgeInitState
    /\ health = NoHealth
    /\ modal = ModalInitState

InitSys ==
    /\ now = 0
    /\ \E smp \in SysSamples : keepAliveTable = smp.keepAlive /\ db = smp.db
    /\ probe = NoProbe
    /\ view = "sys"
    /\ cron = CronInitState
    /\ sys = SysInitState
    /\ edge = EdgeInitState
    /\ health = NoHealth
    /\ modal = ModalInitState

InitEdge ==
    /\ now = 0
    /\ keepAliveTable \in {NoRow} \cup {Row(ts) : ts \in EdgeSampleTs}
    /\ db = EmptyDb
    /\ probe = NoProbe
    /\ view = "edge"
    /\ cron = CronInitState
    /\ sys = SysInitState
    /\ edge = EdgeInitState
    /\ health = NoHealth
    /\ modal = ModalInitState

InitModal ==
    /\ now = 0
    /\ keepAliveTable = NoRow
    /\ db = EmptyDb
    /\ probe = NoProbe
    /\ view = "modal"
    /\ cron = CronInitState
    /\ sys = SysInitState
    /\ edge = EdgeInitState
    /\ health = NoHealth
    /\ modal = ModalInitState

Init == InitCron \/ InitSys \/ InitEdge \/ InitModal

\* ------------------------------------------------------ CronJobMonitoring
\* useEffect(() => { if (autoRefresh) { setInterval(...); return cleanup } }):
\* the effect body, and the cleanup of the effect run with autoRefresh.
CronIntervalEffect(autoRefresh, intervals) ==
    IF autoRefresh THEN intervals + 1 ELSE intervals

CronIntervalCleanup_Missing(autoRefresh, intervals) == intervals

CronIntervalCleanup(autoRefresh, intervals) ==
    IF autoRefresh THEN intervals - 1 ELSE intervals

\* A call of fetchKeepAliveStatus by the mounted instance (live) or by a
\* callback of an unmounted one (orphan): the query is issued.
CronStartFetch(c, who) ==
    [c EXCEPT !.fetches[who] = @ + 1]

\* The component mounts: initial state, then both effects run (the first
\* fetches, the second does nothing since autoRefresh is false).
CronMount ==
    /\ view = "cron"
    /\ ~cron.mounted
    /\ Total(cron.fetches) < MaxInflight
    /\ cron' = CronStartFetch(
                 [CronInitState EXCEPT
                    !.mounted = TRUE,
                    !.intervals = CronIntervalEffect(FALSE, cron.intervals),
                    !.fetches = cron.fetches,
                    !.tests = cron.tests,
                    !.timeouts = cron.timeouts,
                    !.lastTest = cron.lastTest], "live")
    /\ UNCHANGED <<now, keepAliveTable, db, probe, view, sys, edge, health, modal>>

\* The component unmounts: the effect cleanup runs, the state is dropped;
\* queries, invocations and timeouts already started are not cancelled.
CronUnmount ==
    /\ cron.mounted
    /\ cron' = [CronInitState EXCEPT
                  !.intervals = CronIntervalCleanup(cron.autoRefresh, cron.intervals),
                  !.fetches = Orphaned(cron.fetches),
                  !.tests = Orphaned(cron.tests),
                  !.timeouts = Orphaned(cron.timeouts),
                  !.lastTest = cron.lastTest]
    /\ UNCHANGED <<now, keepAliveTable, db, probe, view, sys, edge, health, modal>>

\* onClick={() => setAutoRefresh(!autoRefresh)} and the effect re-run it
\* causes: cleanup of the previous effect, then the effect body.
CronToggleAutoRefresh ==
    /\ cron.mounted
    /\ cron' = [cron EXCEPT
                  !.autoRefresh = ~cron.autoRefresh,
                  !.intervals = CronIntervalEffect(~cron.autoRefresh,
                                   CronIntervalCleanup(cron.autoRefresh, cron.intervals))]
    /\ UNCHANGED <<now, keepAliveTable, db, probe, view, sys, edge, health, modal>>

\* A live interval timer fires: fetchKeepAliveStatus is called.
CronIntervalTick ==
    /\ cron.intervals > 0
    /\ Total(cron.fetches) < MaxInflight
    /\ cron' = CronStartFetch(cron, IF cron.mounted THEN "live" ELSE "orphan")
    /\ UNCHANGED <<now, keepAliveTable, db, probe, view, sys, edge, health, modal>>

\* The Refresh button (disabled={loading}) calls fetchKeepAliveStatus.
CronRefreshClick ==
    /\ cron.mounted
    /\ ~cron.loading
    /\ Total(cron.fetches) < MaxInflight
    /\ cron' = CronStartFetch(cron, "live")
    /\ UNCHANGED <<now, keepAliveTable, db, probe, view, sys, edge, health, modal>>

\* The value fetchKeepAliveStatus passes to setKeepAlive when its query
\* returns a result (failure "none" or "other") or throws.
CronFetched_ThrowUnknown(table, failure, nowT) ==
    IF failure = "throw"
    THEN [lastPing |-> TsNull, status |-> "unknown", hoursAgo |-> HoursNull]
    ELSE CronKeepAlive(QueryResult(table, failure, TRUE), nowT)

CronFetched(table, failure, nowT) ==
    IF failure = "throw"
    THEN [lastPing |-> TsNull, status |-> "error", hoursAgo |-> HoursNull]
    ELSE CronKeepAlive(QueryResult(table, failure, TRUE), nowT)

\* The query of a fetchKeepAliveStatus call completes: setKeepAlive, then
\* setLoading(false) in finally.  An orphan's updates reach no component.
CronFetchReturn ==
    \E who \in {"live", "orphan"}, failure \in {"none", "other", "throw"} :
        /\ cron.fetches[who] > 0
        /\ cron' = IF who = "live"
                   THEN [cron EXCEPT
                           !.fetches.live = @ - 1,
                           !.keepAlive = CronFetched(keepAliveTable, failure, now),
                           !.lastFetch =
                               [result |-> IF failure = "throw" THEN "throw"
                                           ELSE QueryResult(keepAliveTable, failure, TRUE).error,
                                before |-> cron.keepAlive],
                           !.loading = FALSE]
                   ELSE [cron EXCEPT !.fetches.orphan = @ - 1]
        /\ UNCHANGED <<now, keepAliveTable, db, probe, view, sys, edge, health, modal>>

\* The Test Now button (disabled={testing}): handleTestKeepAlive up to its
\* await.
CronTestClick ==
    /\ cron.mounted
    /\ ~cron.testing
    /\ Total(cron.tests) < MaxInflight
    /\ cron' = [cron EXCEPT !.testing = TRUE, !.tests.live = @ + 1]
    /\ UNCHANGED <<now, keepAliveTable, db, probe, view, sys, edge, health, modal>>

\* functions.invoke('keep-alive') completes with outcome "ok", "error"
\* ({error}) or "throw": one toast, the delayed refresh on success only,
\* setTesting(false) in finally.
CronTestReturn_NoFinally ==
    \E who \in {"live", "orphan"}, outcome \in {"ok", "error", "throw"} :
        /\ cron.tests[who] > 0
        /\ outcome = "ok" => Total(cron.timeouts) < MaxInflight
        /\ cron' = [cron EXCEPT
                      !.tests[who] = @ - 1,
                      !.timeouts[who] = IF outcome = "ok" THEN @ + 1 ELSE @,
                      !.lastTest = [outcome |-> outcome,
                                    success |-> IF outcome = "ok" THEN 1 ELSE 0,
                                    error |-> IF outcome = "ok" THEN 0 ELSE 1],
                      !.testing = IF who = "live" /\ outcome # "throw" THEN FALSE ELSE @]
        /\ UNCHANGED <<now, keepAliveTable, db, probe, view, sys, edge, health, modal>>

CronTestReturn_AlwaysRefresh ==
    \E who \in {"live", "orphan"}, outcome \in {"ok", "error", "throw"} :
        /\ cron.tests[who] > 0
        /\ Total(cron.timeouts) < MaxInflight
        /\ cron' = [cron EXCEPT
                      !.tests[who] = @ - 1,
                      !.timeouts[who] = @ + 1,
                      !.lastTest = [outcome |-> outcome,
                                    success |-> IF outcome = "ok" THEN 1 ELSE 0,
                                    error |-> IF outcome = "ok" THEN 0 ELSE 1],
                      !.testing = IF who = "live" THEN FALSE ELSE @]
        /\ UNCHANGED <<now, keepAliveTable, db, probe, view, sys, edge, health, modal>>

CronTestReturn ==
    \E who \in {"live", "orphan"}, outcome \in {"ok", "error", "throw"} :
        /\ cron.tests[who] > 0
        /\ outcome = "ok" => Total(cron.timeouts) < MaxInflight
        /\ cron' = [cron EXCEPT
                      !.tests[who] = @ - 1,
                      !.timeouts[who] = IF outcome = "ok" THEN @ + 1 ELSE @,
                      !.lastTest = [outcome |-> outcome,
                                    success |-> IF outcome = "ok" THEN 1 ELSE 0,
                                    error |-> IF outcome = "ok" THEN 0 ELSE 1],
                      !.testing = IF who = "live" THEN FALSE ELSE @]
        /\ UNCHANGED <<now, keepAliveTable, db, probe, view, sys, edge, health, modal>>

\* A setTimeout(fetchKeepAliveStatus, 1000) fires.
CronTimeoutFire ==
    \E who \in {"live", "orphan"} :
        /\ cron.timeouts[who] > 0
        /\ Total(cron.fetches) < MaxInflight
        /\ cron' = CronStartFetch([cron EXCEPT !.timeouts[who] = @ - 1], who)
        /\ UNCHANGED <<now, keepAliveTable, db, probe, view, sys, edge, health, modal>>

CronNext ==
    \/ CronMount
    \/ CronUnmount
    \/ CronToggleAutoRefresh
    \/ CronIntervalTick
    \/ CronRefreshClick
    \/ CronFetchReturn
    \/ CronTestClick
    \/ CronTestReturn
    \/ CronTimeoutFire

\* --------------------------------------------------- SystemStatusSettings
SysIntervalEffect(autoRefresh, intervals) ==
    IF autoRefresh THEN intervals + 1 ELSE intervals

SysIntervalCleanup(autoRefresh, intervals) ==
    IF autoRefresh THEN intervals - 1 ELSE intervals

\* The locals of a fetchSystemStats call at its first await: every count
\* query issued and pending (row -1), nothing computed yet.
NewCycle ==
    [phase |-> "counts",
     rows |-> [t \in Tables |-> -1],
     queryErrors |-> <<>>,
     tableStats |-> <<>>,
     totalRecords |-> 0,
     lastBackup |-> TsNull,
     lastBackupError |-> FALSE,
     keepAliveStatus |-> "unknown",
     lastKeepAlive |-> TsNull]

\* A call of fetchSystemStats: setLoading(true), setError(null), then the
\* count queries are issued.  An orphan's set-state calls reach no component.
SysStartFetch(s, who) ==
    IF who = "live"
    THEN [s EXCEPT !.loading = TRUE, !.error = "null",
                   !.cycles = Append(@, NewCycle),
                   !.started = @ + 1]
    ELSE [s EXCEPT !.orphans = @ + 1, !.started = @ + 1]

RemoveAt(seq, i) == SubSeq(seq, 1, i - 1) \o SubSeq(seq, i + 1, Len(seq))

SysMount ==
    /\ view = "sys"
    /\ ~sys.mounted
    /\ sys.started < MaxFetches
    /\ sys' = SysStartFetch(
                [SysInitState EXCEPT
                   !.mounted = TRUE,
                   !.intervals = SysIntervalEffect(FALSE, sys.intervals),
                   !.orphans = sys.orphans,
                   !.started = sys.started], "live")
    /\ UNCHANGED <<now, keepAliveTable, db, probe, view, cron, edge, health, modal>>

SysUnmount ==
    /\ sys.mounted
    /\ sys' = [SysInitState EXCEPT
                 !.intervals = SysIntervalCleanup(sys.autoRefresh, sys.intervals),
                 !.orphans = sys.orphans + Len(sys.cycles),
                 !.started = sys.started]
    /\ UNCHANGED <<now, keepAliveTable, db, probe, view, cron, edge, health, modal>>

\* onClick={() => setAutoRefresh(!autoRefresh)} and the effect re-run.  The
\* button is not rendered while the loading skeleton is (loading && !stats).
SysToggleAutoRefresh ==
    /\ sys.mounted
    /\ ~(sys.loading /\ ~sys.stats.published)
    /\ sys' = [sys EXCEPT
                 !.autoRefresh = ~sys.autoRefresh,
                 !.intervals = SysIntervalEffect(~sys.autoRefresh,
                                  SysIntervalCleanup(sys.autoRefresh, sys.intervals))]
    /\ UNCHANGED <<now, keepAliveTable, db, probe, view, cron, edge, health, modal>>

\* A live interval timer fires: fetchSystemStats is called.
SysIntervalTick ==
    /\ sys.intervals > 0
    /\ sys.started < MaxFetches
    /\ sys' = SysStartFetch(sys, IF sys.mounted THEN "live" ELSE "orphan")
    /\ UNCHANGED <<now, keepAliveTable, db, probe, view, cron, edge, health, modal>>

\* The Refresh button (disabled={loading}) calls fetchSystemStats.
SysRefreshClick ==
    /\ sys.mounted
    /\ ~sys.loading
    /\ sys.started < MaxFetches
    /\ sys' = SysStartFetch(sys, "live")
    /\ UNCHANGED <<now, keepAliveTable, db, probe, view, cron, edge, health, modal>>

\* results.forEach: tableStats in TABLE_CONFIG order, totalRecords the sum.
RECURSIVE SumRows(_, _)
SumRows(rows, n) == IF n = 0 THEN 0 ELSE rows[n] + SumRows(rows, n - 1)

ResultsOf(rows) ==
    [t \in Tables |-> [table_name |-> TABLE_CONFIG[t], row_count |-> rows[t]]]

\* tableStats.sort((a, b) => b.row_count - a.row_count): stable, descending.
RECURSIVE InsertDesc(_, _)
InsertDesc(sorted, x) ==
    IF sorted = <<>> THEN <<x>>
    ELSE IF sorted[Len(sorted)].row_count >= x.row_count THEN Append(sorted, x)
    ELSE Append(InsertDesc(SubSeq(sorted, 1, Len(sorted) - 1), x), sorted[Len(sorted)])

RECURSIVE SortDesc(_, _)
SortDesc(seq, n) ==
    IF n = 0 THEN <<>> ELSE InsertDesc(SortDesc(seq, n - 1), seq[n])

\* What a count read (select('*', {count: 'exact', head: true})) of a table
\* of n rows can come to: {count}, {error} (count null) or a thrown exception.
CountResults(n) ==
    {[kind |-> "ok", count |-> n],
     [kind |-> "error", count |-> 0], [kind |-> "throw", count |-> 0]}

\* One count query of cycle c completes for table t with r.  A failure pushes onto
\* queryErrors and yields row_count 0.  When it was the last one pending,
\* Promise.all resolves: tableStats, totalRecords, sort, and on to backups.
CountReturned_Retry(c, t, r) ==
    LET failed == r.kind \in {"error", "throw"}
        again == failed /\ \A k \in DOMAIN c.queryErrors : c.queryErrors[k] # TABLE_CONFIG[t]
        rows == IF again THEN c.rows
                ELSE [c.rows EXCEPT ![t] = IF failed THEN 0 ELSE r.count]
        errs == IF again THEN Append(c.queryErrors, TABLE_CONFIG[t]) ELSE c.queryErrors
        c1 == [c EXCEPT !.rows = rows, !.queryErrors = errs]
    IN IF \E u \in Tables : rows[u] = -1
       THEN c1
       ELSE [c1 EXCEPT !.phase = "backups",
                       !.tableStats = SortDesc(ResultsOf(rows), NumTables),
                       !.totalRecords = SumRows(rows, NumTables)]

CountReturned_Unsorted(c, t, r) ==
    LET failed == r.kind \in {"error", "throw"}
        rows == [c.rows EXCEPT ![t] = IF failed THEN 0 ELSE r.count]
        errs == IF failed THEN Append(c.queryErrors, TABLE_CONFIG[t]) ELSE c.queryErrors
        c1 == [c EXCEPT !.rows = rows, !.queryErrors = errs]
    IN IF \E u \in Tables : rows[u] = -1
       THEN c1
       ELSE [c1 EXCEPT !.phase = "backups",
                       !.tableStats = ResultsOf(rows),
                       !.totalRecords = SumRows(rows, NumTables)]

CountReturned(c, t, r) ==
    LET failed == r.kind \in {"error", "throw"}
        rows == [c.rows EXCEPT ![t] = IF failed THEN 0 ELSE r.count]
        errs == IF failed THEN Append(c.queryErrors, TABLE_CONFIG[t]) ELSE c.queryErrors
        c1 == [c EXCEPT !.rows = rows, !.queryErrors = errs]
    IN IF \E u \in Tables : rows[u] = -1
       THEN c1
       ELSE [c1 EXCEPT !.phase = "backups",
                       !.tableStats = SortDesc(ResultsOf(rows), NumTables),
                       !.totalRecords = SumRows(rows, NumTables)]

SysCountReturn ==
    \E i \in DOMAIN sys.cycles, t \in Tables :
      \E r \in CountResults(db.counts[t]) :
        /\ sys.cycles[i].phase = "counts"
        /\ sys.cycles[i].rows[t] = -1
        /\ sys' = [sys EXCEPT !.cycles[i] = CountReturned(@, t, r)]
        /\ UNCHANGED <<now, keepAliveTable, db, probe, view, cron, edge, health, modal>>

\* The backups read completes: "row" (created_at = the epoch of the model),
\* "norow" (PGRST116), "error" or "throw".
BackupReturned(c, r) ==
    [c EXCEPT !.phase = "keep_alive",
              !.lastBackupError = r \in {"error", "throw"},
              !.lastBackup = IF r = "row" THEN TsIso(0) ELSE TsNull]

SysBackupReturn ==
    \E i \in DOMAIN sys.cycles,
       r \in {IF db.backup THEN "row" ELSE "norow", "error", "throw"} :
        /\ sys.cycles[i].phase = "backups"
        /\ sys' = [sys EXCEPT !.cycles[i] = BackupReturned(@, r)]
        /\ UNCHANGED <<now, keepAliveTable, db, probe, view, cron, edge, health, modal>>

\* The keep_alive read completes; a throw is ignored (status stays unknown).
KeepAliveReturned(c, table, failure, nowT) ==
    IF failure = "throw"
    THEN [c EXCEPT !.phase = "profiles"]
    ELSE LET ka == SysKeepAlive(QueryResult(table, failure, TRUE), nowT)
         IN [c EXCEPT !.phase = "profiles",
                      !.keepAliveStatus = ka.keepAliveStatus,
                      !.lastKeepAlive = ka.lastKeepAlive]

SysKeepAliveReturn ==
    \E i \in DOMAIN sys.cycles, failure \in {"none", "other", "throw"} :
        /\ sys.cycles[i].phase = "keep_alive"
        /\ sys' = [sys EXCEPT !.cycles[i] = KeepAliveReturned(@, keepAliveTable, failure, now)]
        /\ UNCHANGED <<now, keepAliveTable, db, probe, view, cron, edge, health, modal>>

\* The object passed to setStats; storageUsed is totalRecords * 0.001 MB,
\* kept in thousandths of a MB.
StatsOf(c, userCount) ==
    [published |-> TRUE,
     tables |-> c.tableStats,
     totalRecords |-> c.totalRecords,
     registeredUsers |-> userCount,
     lastBackup |-> c.lastBackup,
     lastBackupError |-> c.lastBackupError,
     storageUsed |-> c.totalRecords,
     keepAliveStatus |-> c.keepAliveStatus,
     lastKeepAlive |-> c.lastKeepAlive,
     queryErrors |-> c.queryErrors]

\* The profiles count completes with r; userCount || 0 for {error}.  This await is outside the inner try blocks: a throw reaches the
\* outer catch (setError) and nothing is published.  finally: setLoading(false).
ProfilesReturned_NoFinally(s, c, r, nowT) ==
    IF r.kind = "throw"
    THEN [s EXCEPT !.error = "Failed to fetch system statistics"]
    ELSE [s EXCEPT !.stats = StatsOf(c, r.count),
                   !.lastRefresh = nowT,
                   !.loading = FALSE]

ProfilesReturned(s, c, r, nowT) ==
    IF r.kind = "throw"
    THEN [s EXCEPT !.error = "Failed to fetch system statistics", !.loading = FALSE]
    ELSE [s EXCEPT !.stats = StatsOf(c, r.count),
                   !.lastRefresh = nowT,
                   !.loading = FALSE]

SysProfilesReturn ==
    \E i \in DOMAIN sys.cycles, r \in CountResults(db.users) :
        /\ sys.cycles[i].phase = "profiles"
        /\ sys' = ProfilesReturned([sys EXCEPT !.cycles = RemoveAt(@, i)],
                                    sys.cycles[i], r, now)
        /\ UNCHANGED <<now, keepAliveTable, db, probe, view, cron, edge, health, modal>>

\* A call of an unmounted instance runs on to its end: its queries return
\* and its set-state calls reach no mounted component.
SysOrphanReturn ==
    /\ sys.orphans > 0
    /\ sys' = [sys EXCEPT !.orphans = @ - 1]
    /\ UNCHANGED <<now, keepAliveTable, db, probe, view, cron, edge, health, modal>>

SysNext ==
    \/ SysMount
    \/ SysUnmount
    \/ SysToggleAutoRefresh
    \/ SysIntervalTick
    \/ SysRefreshClick
    \/ SysCountReturn
    \/ SysBackupReturn
    \/ SysKeepAliveReturn
    \/ SysProfilesReturn
    \/ SysOrphanReturn

\* ---------------------------------------------------- EdgeFunctionMonitor
\* A call of fetchFunctionStatuses: setLoading(true), then the reads are
\* issued together.  An orphan's set-state calls reach no component.
EdgeStartFetch(e, who) ==
    IF who = "live"
    THEN [e EXCEPT !.loading = TRUE, !.fetches.live = @ + 1]
    ELSE [e EXCEPT !.fetches.orphan = @ + 1]

\* functionsList as passed to setFunctions, for the keep_alive read res: the
\* status of each function followed and the lastActivity of 'keep-alive'.
FunctionsList(res, nowT) ==
    LET keepAliveStatus == getStatus(res, nowT)
    IN [published |-> TRUE,
        status |-> [f \in EdgeFunctions |->
                      IF f = "keep-alive" THEN keepAliveStatus.status
                      ELSE IF f = "restore-backup" THEN "unknown"
                      ELSE "deprecated"],
        lastActivity |-> keepAliveStatus.lastActivity]

\* The component mounts: initial state, then the effect fetches.
EdgeMount ==
    /\ view = "edge"
    /\ ~edge.mounted
    /\ Total(edge.fetches) < MaxInflight
    /\ edge' = EdgeStartFetch(
                 [EdgeInitState EXCEPT
                    !.mounted = TRUE,
                    !.fetches = edge.fetches,
                    !.tests = edge.tests,
                    !.timeouts = edge.timeouts,
                    !.lastFetch = edge.lastFetch,
                    !.lastTest = edge.lastTest], "live")
    /\ UNCHANGED <<now, keepAliveTable, db, probe, view, cron, sys, health, modal>>

\* The component unmounts: the state is dropped; reads, invocations and
\* timeouts already started are not cancelled.
EdgeUnmount ==
    /\ edge.mounted
    /\ edge' = [EdgeInitState EXCEPT
                  !.fetches = Orphaned(edge.fetches),
                  !.tests = Orphaned(edge.tests),
                  !.timeouts = Orphaned(edge.timeouts),
                  !.lastFetch = edge.lastFetch,
                  !.lastTest = edge.lastTest]
    /\ UNCHANGED <<now, keepAliveTable, db, probe, view, cron, sys, health, modal>>

\* The Refresh button (disabled={loading}) calls fetchFunctionStatuses.
EdgeRefreshClick ==
    /\ edge.mounted
    /\ ~edge.loading
    /\ Total(edge.fetches) < MaxInflight
    /\ edge' = EdgeStartFetch(edge, "live")
    /\ UNCHANGED <<now, keepAliveTable, db, probe, view, cron, sys, health, modal>>

\* Promise.all of a fetchFunctionStatuses call settles: it resolves, the
\* keep_alive read having returned a result (failure "none" or "other"), or
\* it rejects because a read threw.  Resolved: setFunctions, setLastRefresh.
\* Rejected: toast.error.  finally: setLoading(false).
EdgeFetchReturn ==
    \E who \in {"live", "orphan"}, failure \in {"none", "other", "throw"} :
        /\ edge.fetches[who] > 0
        /\ edge' =
             LET e1 == [edge EXCEPT
                          !.fetches[who] = @ - 1,
                          !.lastFetch = IF failure = "throw" THEN "rejected" ELSE "resolved"]
             IN IF who = "orphan" THEN e1
                ELSE IF failure = "throw" THEN [e1 EXCEPT !.loading = FALSE]
                ELSE [e1 EXCEPT
                        !.functions = FunctionsList(QueryResult(keepAliveTable, failure, FALSE), now),
                        !.lastRefresh = now,
                        !.loading = FALSE]
        /\ UNCHANGED <<now, keepAliveTable, db, probe, view, cron, sys, health, modal>>

\* The test button of function f (rendered in the list when not loading,
\* disabled={testing === func.name || func.status === 'deprecated'}):
\* handleTestFunction up to its await.
EdgeTestClick ==
    \E f \in EdgeFunctions :
        /\ edge.mounted
        /\ ~edge.loading
        /\ edge.functions.published
        /\ edge.testing # f
        /\ edge.functions.status[f] # "deprecated"
        /\ Total(edge.tests) < MaxInflight
        /\ edge' = [edge EXCEPT !.testing = f, !.tests.live = @ + 1,
                                !.inFlight[f] = @ + 1]
        /\ UNCHANGED <<now, keepAliveTable, db, probe, view, cron, sys, health, modal>>

\* functions.invoke(functionName) completes with outcome "ok", "error"
\* ({error}) or "throw": one toast; finally: setTesting(null) and the
\* delayed refresh, whatever the outcome.  (The function an orphan
\* invoked is not followed: its set-state calls reach no component.)
EdgeTestReturn_RefreshOnSuccess ==
    \E who \in {"live", "orphan"}, outcome \in {"ok", "error", "throw"},
       functionName \in EdgeFunctions :
        /\ edge.tests[who] > 0
        /\ IF who = "live" THEN edge.inFlight[functionName] > 0
                           ELSE functionName = "keep-alive"
        /\ Total(edge.timeouts) < MaxInflight
        /\ edge' = [edge EXCEPT
                      !.tests[who] = @ - 1,
                      !.inFlight[functionName] = IF who = "live" THEN @ - 1 ELSE @,
                      !.timeouts[who] = IF outcome = "ok" THEN @ + 1 ELSE @,
                      !.lastTest = [outcome |-> outcome,
                                    success |-> IF outcome = "ok" THEN 1 ELSE 0,
                                    error |-> IF outcome = "ok" THEN 0 ELSE 1],
                      !.testing = IF who = "live" THEN "null" ELSE @]
        /\ UNCHANGED <<now, keepAliveTable, db, probe, view, cron, sys, health, modal>>

EdgeTestReturn ==
    \E who \in {"live", "orphan"}, outcome \in {"ok", "error", "throw"},
       functionName \in EdgeFunctions :
        /\ edge.tests[who] > 0
        /\ IF who = "live" THEN edge.inFlight[functionName] > 0
                           ELSE functionName = "keep-alive"
        /\ Total(edge.timeouts) < MaxInflight
        /\ edge' = [edge EXCEPT
                      !.tests[who] = @ - 1,
                      !.inFlight[functionName] = IF who = "live" THEN @ - 1 ELSE @,
                      !.timeouts[who] = @ + 1,
                      !.lastTest = [outcome |-> outcome,
                                    success |-> IF outcome = "ok" THEN 1 ELSE 0,
                                    error |-> IF outcome = "ok" THEN 0 ELSE 1],
                      !.testing = IF who = "live" THEN "null" ELSE @]
        /\ UNCHANGED <<now, keepAliveTable, db, probe, view, cron, sys, health, modal>>

\* A setTimeout(fetchFunctionStatuses, 1000) fires.
EdgeTimeoutFire ==
    \E who \in {"live", "orphan"} :
        /\ edge.timeouts[who] > 0
        /\ Total(edge.fetches) < MaxInflight
        /\ edge' = EdgeStartFetch([edge EXCEPT !.timeouts[who] = @ - 1], who)
        /\ UNCHANGED <<now, keepAliveTable, db, probe, view, cron, sys, health, modal>>

EdgeNext ==
    \/ EdgeMount
    \/ EdgeUnmount
    \/ EdgeRefreshClick
    \/ EdgeFetchReturn
    \/ EdgeTestClick
    \/ EdgeTestReturn
    \/ EdgeTimeoutFire

\* ------------------------------------------------ DashboardCustomizeModal
WidgetKeys == {DEFAULT_WIDGETS[i] : i \in DOMAIN DEFAULT_WIDGETS}

\* Values of the visibleWidgets prop: none, all, and some of the keys.
SampleVisible == {{}, WidgetKeys, {"leads", "deals", "leadStatus"}}

\* The effect body: DEFAULT_WIDGETS.map(w => ({...w, visible:
\* visibleWidgets.includes(w.key)})).
InitialWidgets_AllVisible(visibleWidgets) ==
    [i \in DOMAIN DEFAULT_WIDGETS |->
        [key |-> DEFAULT_WIDGETS[i], visible |-> TRUE]]

InitialWidgets(visibleWidgets) ==
    [i \in DOMAIN DEFAULT_WIDGETS |->
        [key |-> DEFAULT_WIDGETS[i], visible |-> DEFAULT_WIDGETS[i] \in visibleWidgets]]

\* toggleWidget: prev.map(w => w.key === key ? {...w, visible: !w.visible} : w).
toggleWidget(widgets, key) ==
    [i \in DOMAIN widgets |->
        IF widgets[i].key = key THEN [widgets[i] EXCEPT !.visible = ~@] ELSE widgets[i]]

\* handleReset: the value passed to setWidgets.
handleReset_ToProps ==
    [i \in DOMAIN DEFAULT_WIDGETS |->
        [key |-> DEFAULT_WIDGETS[i], visible |-> DEFAULT_WIDGETS[i] \in modal.visibleWidgets]]

handleReset ==
    [i \in DOMAIN DEFAULT_WIDGETS |->
        [key |-> DEFAULT_WIDGETS[i], visible |-> TRUE]]

\* handleSave: widgets.filter(w => w.visible).map(w => w.key).
RECURSIVE VisibleKeys(_, _)
VisibleKeys(widgets, n) ==
    IF n = 0 THEN <<>>
    ELSE IF widgets[n].visible
         THEN Append(VisibleKeys(widgets, n - 1), widgets[n].key)
         ELSE VisibleKeys(widgets, n - 1)

\* The parent mounts the modal with some props; the effect runs.
ModalMount ==
    /\ view = "modal"
    /\ ~modal.mounted
    /\ \E open \in BOOLEAN, visibleWidgets \in SampleVisible :
          modal' = [mounted |-> TRUE,
                    open |-> open,
                    visibleWidgets |-> visibleWidgets,
                    isSaving |-> FALSE,
                    widgets |-> InitialWidgets(visibleWidgets),
                    last |-> [event |-> "mount", after |-> "none", dirty |-> FALSE, call |-> NoCall]]
    /\ UNCHANGED <<now, keepAliveTable, db, probe, view, cron, sys, edge, health>>

ModalUnmount ==
    /\ modal.mounted
    /\ modal' = [ModalInitState EXCEPT !.last.event = "unmount",
                                       !.last.after = modal.last.event]
    /\ UNCHANGED <<now, keepAliveTable, db, probe, view, cron, sys, edge, health>>

\* The parent re-renders the modal with other props.  The effect, with
\* dependencies [visibleWidgets, open], runs when one of the two changed.
ModalPropsChange ==
    /\ modal.mounted
    /\ \E open \in BOOLEAN, visibleWidgets \in SampleVisible, isSaving \in BOOLEAN :
          LET effect == open # modal.open \/ visibleWidgets # modal.visibleWidgets
          IN /\ effect \/ isSaving # modal.isSaving
             /\ modal' = [modal EXCEPT
                            !.open = open,
                            !.visibleWidgets = visibleWidgets,
                            !.isSaving = isSaving,
                            !.widgets = IF effect THEN InitialWidgets(visibleWidgets) ELSE @,
                            !.last = [event |-> "props",
                                      after |-> modal.last.event,
                                      dirty |-> effect /\ modal.widgets # InitialWidgets(modal.visibleWidgets),
                                      call |-> NoCall]]
    /\ UNCHANGED <<now, keepAliveTable, db, probe, view, cron, sys, edge, health>>

\* The parent re-renders the modal with a new array of the same keys: the
\* dependency is compared by identity, so the effect runs.
ModalNewArray ==
    /\ modal.mounted
    /\ modal' = [modal EXCEPT
                   !.widgets = InitialWidgets(modal.visibleWidgets),
                   !.last = [event |-> "rerender", after |-> modal.last.event,
                             dirty |-> FALSE, call |-> NoCall]]
    /\ UNCHANGED <<now, keepAliveTable, db, probe, view, cron, sys, edge, health>>

\* A switch is flipped (the dialog content is rendered while open).
ModalToggle ==
    /\ modal.mounted /\ modal.open
    /\ \E key \in WidgetKeys :
          modal' = [modal EXCEPT
                      !.widgets = toggleWidget(@, key),
                      !.last = [event |-> "toggle", after |-> modal.last.event,
                             dirty |-> FALSE, call |-> NoCall]]
    /\ UNCHANGED <<now, keepAliveTable, db, probe, view, cron, sys, edge, health>>

\* 'Reset to Default'.
ModalReset ==
    /\ modal.mounted /\ modal.open
    /\ modal' = [modal EXCEPT
                   !.widgets = handleReset,
                   !.last = [event |-> "reset", after |-> modal.last.event,
                             dirty |-> FALSE, call |-> NoCall]]
    /\ UNCHANGED <<now, keepAliveTable, db, probe, view, cron, sys, edge, health>>

\* 'Save Changes' (disabled={isSaving}): handleSave calls onSave.
ModalSave ==
    /\ modal.mounted /\ modal.open /\ ~modal.isSaving
    /\ modal' = [modal EXCEPT
                   !.last = [event |-> "save", after |-> modal.last.event, dirty |-> FALSE,
                             call |-> [fn |-> "onSave",
                                       arg |-> VisibleKeys(modal.widgets, Len(modal.widgets))]]]
    /\ UNCHANGED <<now, keepAliveTable, db, probe, view, cron, sys, edge, health>>

\* 'Cancel': onOpenChange(false).
ModalCancel ==
    /\ modal.mounted /\ modal.open
    /\ modal' = [modal EXCEPT
                   !.last = [event |-> "cancel", after |-> modal.last.event, dirty |-> FALSE,
                             call |-> [fn |-> "onOpenChange", arg |-> <<"false">>]]]
    /\ UNCHANGED <<now, keepAliveTable, db, probe, view, cron, sys, edge, health>>

ModalNext ==
    \/ ModalMount
    \/ ModalUnmount
    \/ ModalPropsChange
    \/ ModalNewArray
    \/ ModalToggle
    \/ ModalReset
    \/ ModalSave
    \/ ModalCancel

SpecModal == InitModal /\ [][ModalNext]_vars

\* ------------------------------------------------ getHealthStatus
MaxTotal == 4

\* getHealthStatus of SystemStatusSettings: the status label, by the
\* if-chain of the source.  stats is null until a fetch cycle published.
getHealthStatus_KeepAliveFirst(stats) ==
    IF ~stats.published THEN "unknown"
    ELSE IF stats.keepAliveStatus = "error" THEN "Error"
    ELSE IF stats.keepAliveStatus = "warning" THEN "Warning"
    ELSE IF Len(stats.queryErrors) > 0 THEN "Degraded"
    ELSE IF stats.totalRecords > 0 /\ stats.keepAliveStatus = "active" THEN "Healthy"
    ELSE IF stats.totalRecords > 0 THEN "Healthy"
    ELSE "No Data"

getHealthStatus(stats) ==
    IF ~stats.published THEN "unknown"
    ELSE IF Len(stats.queryErrors) > 0 THEN "Degraded"
    ELSE IF stats.keepAliveStatus = "error" THEN "Error"
    ELSE IF stats.keepAliveStatus = "warning" THEN "Warning"
    ELSE IF stats.totalRecords > 0 /\ stats.keepAliveStatus = "active" THEN "Healthy"
    ELSE IF stats.totalRecords > 0 THEN "Healthy"
    ELSE "No Data"

\* The values of stats getHealthStatus reads: null, or the three fields it
\* looks at, over every keep-alive label, zero to two query errors and
\* totals from 0.
HealthInputs ==
    {NoStats} \cup
    [published : {TRUE},
     queryErrors : {<<>>, <<"count failed">>, <<"count failed", "backup failed">>},
     keepAliveStatus : {"active", "warning", "error", "unknown"},
     totalRecords : 0 .. MaxTotal]

InitHealth ==
    /\ now = 0
    /\ keepAliveTable = NoRow
    /\ db = EmptyDb
    /\ probe = NoProbe
    /\ view = "health"
    /\ cron = CronInitState
    /\ sys = SysInitState
    /\ edge = EdgeInitState
    /\ health \in [stats : HealthInputs, status : {"none"}]
    /\ modal = ModalInitState

\* const healthStatus = getHealthStatus() during render.
HealthRender ==
    /\ health.status = "none"
    /\ health' = [health EXCEPT !.status = getHealthStatus(health.stats)]
    /\ UNCHANGED <<now, keepAliveTable, db, probe, view, cron, sys, edge, modal>>

SpecHealth == InitHealth /\ [][HealthRender]_vars

Next == CronNext \/ SysNext \/ EdgeNext \/ ModalNext

SpecCron == InitCron /\ [][CronNext]_vars

SpecSys == InitSys /\ [][SysNext]_vars

SpecEdge == InitEdge /\ [][EdgeNext]_vars

Spec == Init /\ [][Next]_vars

\* Every query eventually returns or throws: some step in which a read of a
\* fetch cycle in flight completes is eventually taken while one is pending.
FetchReturns ==
    \/ CronFetchReturn
    \/ SysCountReturn
    \/ SysBackupReturn
    \/ SysKeepAliveReturn
    \/ SysProfilesReturn
    \/ SysOrphanReturn
    \/ EdgeFetchReturn

\* The sessions followed to their end: every CronJobMonitoring,
\* EdgeFunctionMonitor and DashboardCustomizeModal session, and the
\* SystemStatusSettings session over the data source with no backup on
\* record.
InitLive == InitCron \/ InitEdge \/ InitModal \/ (InitSys /\ ~db.backup)

SpecFetchLive == InitLive /\ [][Next]_vars /\ WF_vars(FetchReturns)

\* Timers fire: a pending setTimeout callback runs once its delay is over,
\* whatever else is going on; queries in flight return.
SpecCronLive ==
    SpecCron /\ WF_vars(CronFetchReturn) /\ SF_vars(CronTimeoutFire)

SpecEdgeLive ==
    SpecEdge /\ WF_vars(EdgeFetchReturn) /\ SF_vars(EdgeTimeoutFire)

\* ------------------------------------------------ properties of the views
\* The fetchSystemStats call at position i ends in this step, in a mounted
\* view: its last read (profiles) returns or throws.
SysCycleEnds(i) ==
    /\ sys.mounted /\ sys'.mounted
    /\ sys.cycles[i].phase = "profiles"
    /\ sys'.cycles = RemoveAt(sys.cycles, i)

\* C7: a fetch cycle publishes its results whatever single query failed or
\* threw: when a fetchSystemStats call ends, stats holds that call's values
\* (defaults for the failed queries, the others as returned) and
\* registeredUsers is the returned count or the default 0.
C7_FailureDoesNotBlock ==
    [][\A i \in DOMAIN sys.cycles :
          SysCycleEnds(i) =>
              /\ sys'.stats.published
              /\ sys'.stats.tables = sys.cycles[i].tableStats
              /\ sys'.stats.totalRecords = sys.cycles[i].totalRecords
              /\ sys'.stats.queryErrors = sys.cycles[i].queryErrors
              /\ sys'.stats.lastBackupError = sys.cycles[i].lastBackupError
              /\ sys'.stats.keepAliveStatus = sys.cycles[i].keepAliveStatus
              /\ sys'.stats.registeredUsers \in 0 .. MaxCount]_vars

\* C8: in SystemStatusSettings and in CronJobMonitoring exactly one interval
\* timer is live while the view is mounted with autoRefresh on, and none
\* otherwise.
C8_OneIntervalIffAutoRefresh ==
    /\ sys.intervals = IF sys.mounted /\ sys.autoRefresh THEN 1 ELSE 0
    /\ cron.intervals = IF cron.mounted /\ cron.autoRefresh THEN 1 ELSE 0

\* C8 witness: SystemStatusSettings polls (mounted, autoRefresh on, one
\* timer) and a cycle started since the first one ended.
C8_Witness ==
    /\ sys.mounted /\ sys.autoRefresh /\ sys.intervals = 1
    /\ sys.started = 2 /\ sys.stats.published /\ Len(sys.cycles) = 1

\* The same for CronJobMonitoring, and the view torn down with work of the
\* unmounted instance still in flight.
C8_WitnessCron ==
    cron.mounted /\ cron.autoRefresh /\ cron.intervals = 1 /\ cron.fetches.live = 2

C8_WitnessTornDown ==
    ~cron.mounted /\ cron.intervals = 0 /\ cron.fetches.orphan > 0

\* C9: no fetch cycle of a view starts while another fetch cycle of the same
\* view is in flight: at most one is in flight at any time.
C9_NoOverlappingFetch ==
    /\ cron.fetches.live <= 1
    /\ Len(sys.cycles) <= 1

Range(seq) == {seq[i] : i \in DOMAIN seq}

\* What one fetchSystemStats call derives from its count queries: of every
\* call past Promise.all, and of the call whose stats are displayed.
CountRuns ==
    {[tables |-> sys.cycles[i].tableStats,
      totalRecords |-> sys.cycles[i].totalRecords,
      queryErrors |-> sys.cycles[i].queryErrors] :
        i \in {j \in DOMAIN sys.cycles : sys.cycles[j].phase # "counts"}}
      \cup (IF sys.stats.published
            THEN {[tables |-> sys.stats.tables,
                   totalRecords |-> sys.stats.totalRecords,
                   queryErrors |-> sys.stats.queryErrors]}
            ELSE {})

\* C10: two fetch cycles whose count queries had the same results (the same
\* counts, the same failed tables) derive the same tables, totalRecords and
\* queryErrors, order included, whatever order the queries completed in.
C10_CompletionOrderIrrelevant ==
    \A a, b \in CountRuns :
        (a.tables = b.tables /\ Range(a.queryErrors) = Range(b.queryErrors))
            => (a.totalRecords = b.totalRecords /\ a.queryErrors = b.queryErrors)

\* A handleTestKeepAlive / handleTestFunction call of the mounted instance
\* ends in this step: its invocation returned or threw.
CronTestEnds ==
    cron.mounted /\ cron'.mounted /\ cron'.tests.live = cron.tests.live - 1

EdgeTestEnds ==
    edge.mounted /\ edge'.mounted /\ edge'.tests.live = edge.tests.live - 1

\* The toasts of a finished test handler are exactly one, a success toast
\* when the invocation succeeded and an error toast otherwise.
OneNotice(t) ==
    /\ t.success + t.error = 1
    /\ t.success = 1 <=> t.outcome = "ok"

\* C11: a test invocation of CronJobMonitoring or EdgeFunctionMonitor ends
\* with exactly one notice (success toast on success, error toast on an
\* error result or a throw) and with the testing flag idle (false / null),
\* whatever its outcome.
C11_TestEndsWithOneNotice ==
    [][/\ CronTestEnds => (cron'.testing = FALSE /\ OneNotice(cron'.lastTest))
       /\ Total(cron'.tests) < Total(cron.tests) => OneNotice(cron'.lastTest)
       /\ EdgeTestEnds => (edge'.testing = "null" /\ OneNotice(edge'.lastTest))
       /\ Total(edge'.tests) < Total(edge.tests) => OneNotice(edge'.lastTest)]_vars

\* C11 witness: a keep-alive test whose invocation threw has ended in the
\* mounted CronJobMonitoring: error toast, testing false, nothing in flight.
C11_Witness ==
    /\ cron.mounted /\ ~cron.testing /\ Total(cron.tests) = 0
    /\ cron.lastTest = [outcome |-> "throw", success |-> 0, error |-> 1]

\* The same in EdgeFunctionMonitor, for an invocation that returned an error.
C11_WitnessEdge ==
    /\ edge.mounted /\ edge.testing = "null" /\ Total(edge.tests) = 0
    /\ edge.lastTest = [outcome |-> "error", success |-> 0, error |-> 1]

\* A fetch cycle of the mounted instance ends in this step.
CronFetchEnds ==
    cron.mounted /\ cron'.mounted /\ cron'.fetches.live = cron.fetches.live - 1

EdgeFetchEnds ==
    edge.mounted /\ edge'.mounted /\ edge'.fetches.live = edge.fetches.live - 1

\* Fetch cycles in flight, of the mounted instance and of unmounted ones.
SysInFlight == Len(sys.cycles) + sys.orphans

\* C12: every started fetch cycle of every view finishes, setting loading
\* to false, whatever its queries return or throw, provided every query
\* eventually returns or throws: the step that ends a cycle leaves loading
\* false; a view never stays with a cycle in flight without cycles ending
\* again and again; and the fetchSystemStats calls, finitely many, all end.
C12_FetchCycleFinishes ==
    /\ [][/\ CronFetchEnds => cron'.loading = FALSE
          /\ EdgeFetchEnds => edge'.loading = FALSE
          /\ \A i \in DOMAIN sys.cycles : SysCycleEnds(i) => sys'.loading = FALSE]_vars
    /\ (<>[](Total(cron.fetches) > 0) => []<><<CronFetchReturn>>_vars)
    /\ (<>[](Total(edge.fetches) > 0) => []<><<EdgeFetchReturn>>_vars)
    /\ (SysInFlight > 0) ~> (SysInFlight = 0)

\* C12 witness: a fetchSystemStats call whose last read threw has ended:
\* loading is false, the error is set and nothing was published.
C12_Witness ==
    /\ sys.mounted /\ sys.started = 1 /\ SysInFlight = 0
    /\ ~sys.loading /\ sys.error # "null" /\ ~sys.stats.published

\* The fetchSystemStats call at position i completes successfully in this
\* step: its profiles read returns a result and setStats is called.
SysCycleSucceeds(i) ==
    /\ SysCycleEnds(i)
    /\ \E r \in CountResults(db.users) :
          /\ r.kind # "throw"
          /\ sys' = ProfilesReturned([sys EXCEPT !.cycles = RemoveAt(@, i)],
                                      sys.cycles[i], r, now)

\* C13: when a fetchSystemStats call completes successfully the displayed
\* state is that of this call alone: error is null and stats.queryErrors
\* holds the count queries that failed in this call.
C13_StateResetEachCycle ==
    [][\A i \in DOMAIN sys.cycles :
          SysCycleSucceeds(i) =>
              /\ sys'.error = "null"
              /\ sys'.stats.queryErrors = sys.cycles[i].queryErrors]_vars

ReadsLeft(c) ==
    Cardinality({t \in Tables : c.rows[t] = -1})
      + (IF c.phase \in {"counts", "backups"} THEN 3
         ELSE IF c.phase = "keep_alive" THEN 2 ELSE 1)

RECURSIVE SysReadsLeft(_, _)
SysReadsLeft(cycles, n) ==
    IF n = 0 THEN 0 ELSE ReadsLeft(cycles[n]) + SysReadsLeft(cycles, n - 1)

\* Between two states of CronJobMonitoring or EdgeFunctionMonitor: a click
\* adds one invocation; an invocation that ends is not issued again and is
\* followed by at most the one delayed refresh; a read that ends is not
\* issued again.
NoRetry(v, w) ==
    /\ Total(w.tests) > Total(v.tests) => Total(w.tests) = Total(v.tests) + 1
    /\ Total(w.tests) < Total(v.tests) =>
          /\ Total(w.tests) = Total(v.tests) - 1
          /\ Total(w.fetches) = Total(v.fetches)
          /\ Total(w.timeouts) - Total(v.timeouts) \in {0, 1}
    /\ Total(w.fetches) < Total(v.fetches) =>
          /\ Total(w.fetches) = Total(v.fetches) - 1
          /\ Total(w.tests) = Total(v.tests)
          /\ Total(w.timeouts) = Total(v.timeouts)
    /\ Total(w.fetches) > Total(v.fetches) => Total(w.fetches) = Total(v.fetches) + 1

\* C15: nothing is retried: a fetchSystemStats call issues NumTables + 3
\* reads and every answer, failures included, leaves one read fewer to wait
\* for; a fetchKeepAliveStatus or fetchFunctionStatuses call that ends is
\* not started again; a test click invokes the function once and its end,
\* whatever the outcome, starts nothing but at most one delayed refresh.
C15_NoRetries ==
    [][/\ NoRetry(cron, cron')
       /\ NoRetry(edge, edge')
       /\ (sys.mounted /\ sys'.mounted) =>
             SysReadsLeft(sys'.cycles, Len(sys'.cycles))
               = SysReadsLeft(sys.cycles, Len(sys.cycles))
                   + (IF sys'.started > sys.started THEN NumTables + 3
                      ELSE IF sys'.cycles # sys.cycles THEN -1 ELSE 0)]_vars

\* C15 witness: in a fetchSystemStats call every count query and the
\* backups read failed, and the call waits for its keep_alive read only.
C15_Witness ==
    \E i \in DOMAIN sys.cycles :
        /\ sys.cycles[i].phase = "keep_alive"
        /\ Len(sys.cycles[i].queryErrors) = NumTables
        /\ sys.cycles[i].lastBackupError
        /\ ReadsLeft(sys.cycles[i]) = 2

\* The same for a keep-alive test that failed: nothing in flight after it.
C15_WitnessTest ==
    /\ cron.mounted /\ cron.lastTest.outcome = "error"
    /\ Total(cron.tests) = 0 /\ Total(cron.timeouts) = 0 /\ Total(cron.fetches) = 0

\* C16: the keep-alive classifiers of SystemStatusSettings and of
\* CronJobMonitoring give the same status for the same valid timestamp at
\* the same instant.
C16_KeepAliveClassifiersAgree ==
    \A p \in ProbeSet("sys"), q \in ProbeSet("cron") :
        (ProbeValid(p) /\ p.res = q.res) => p.out.keepAliveStatus = q.out.status

\* The keep_alive table holds a valid ping less than 48 hours old.
PingYoungerThan48h ==
    /\ keepAliveTable.present
    /\ keepAliveTable.field.kind = "iso"
    /\ now - keepAliveTable.field.t < 48 * TicksPerHour

\* C17: while CronJobMonitoring shows status 'error' (the alert 'No
\* successful ping detected in the last 48 hours'), the data source holds
\* no ping younger than 48 hours.
C17_ErrorMeansNoRecentPing ==
    (cron.mounted /\ cron.keepAlive.status = "error") => ~PingYoungerThan48h

\* C18: after a fetchKeepAliveStatus call whose query reported PGRST116 the
\* status is 'unknown', after one whose query reported another error or
\* threw it is 'error', and in all these cases lastPing and hoursAgo are
\* null, whatever the earlier cycle had put there.
C18_CronFailureDefaults ==
    /\ cron.lastFetch.result = "PGRST116" =>
          cron.keepAlive = [lastPing |-> TsNull, status |-> "unknown", hoursAgo |-> HoursNull]
    /\ cron.lastFetch.result \in {"other", "throw"} =>
          cron.keepAlive = [lastPing |-> TsNull, status |-> "error", hoursAgo |-> HoursNull]

\* C18 witness: a fetch whose query threw has replaced a keepAlive value
\* that held a ping and its age.
C18_Witness ==
    /\ cron.mounted
    /\ cron.lastFetch.result = "throw"
    /\ cron.lastFetch.before.lastPing # TsNull
    /\ ~cron.lastFetch.before.hoursAgo.null
    /\ cron.keepAlive.lastPing = TsNull

\* The same for an empty table (PGRST116) and for an error result.
C18_WitnessNoRows ==
    cron.mounted /\ cron.lastFetch.result = "PGRST116"

C18_WitnessErrorResult ==
    /\ cron.mounted /\ cron.lastFetch.result = "other"
    /\ cron.lastFetch.before.lastPing # TsNull

\* A test handler ends in this step, of the mounted instance or not.
CronTestReturns == Total(cron'.tests) < Total(cron.tests)

EdgeTestReturns == Total(edge'.tests) < Total(edge.tests)

\* C19: in CronJobMonitoring a keep-alive test that succeeded schedules one
\* fetchKeepAliveStatus and a test that returned an error or threw
\* schedules none, and a scheduled refresh is eventually started (pending
\* timeouts do not stay without timeouts firing).
C19_CronRefreshIffTestSucceeded ==
    /\ [][CronTestReturns =>
            /\ Total(cron'.timeouts) =
                  Total(cron.timeouts) + (IF cron'.lastTest.outcome = "ok" THEN 1 ELSE 0)
            /\ cron'.fetches = cron.fetches]_vars
    /\ [][Total(cron'.timeouts) < Total(cron.timeouts) =>
            Total(cron'.fetches) = Total(cron.fetches) + 1]_vars
    /\ (<>[](Total(cron.timeouts) > 0) => []<><<CronTimeoutFire>>_vars)

\* C19 witness: a successful test has ended and its refresh is pending.
C19_Witness ==
    /\ cron.mounted /\ cron.lastTest.outcome = "ok" /\ ~cron.testing
    /\ cron.timeouts.live = 1 /\ Total(cron.tests) = 0

\* A failed test has ended and nothing is pending or in flight.
C19_WitnessFailed ==
    /\ cron.mounted /\ cron.lastTest.outcome = "throw" /\ ~cron.testing
    /\ Total(cron.timeouts) = 0 /\ Total(cron.tests) = 0 /\ Total(cron.fetches) = 0

\* C20: in EdgeFunctionMonitor every test that ends, whether its invocation
\* succeeded, returned an error or threw, sets testing to null and
\* schedules exactly one fetchFunctionStatuses, and a scheduled refresh is
\* eventually started.
C20_EdgeRefreshAfterEveryTest ==
    /\ [][EdgeTestReturns =>
            /\ Total(edge'.timeouts) = Total(edge.timeouts) + 1
            /\ edge'.fetches = edge.fetches]_vars
    /\ [][EdgeTestEnds => edge'.testing = "null"]_vars
    /\ [][Total(edge'.timeouts) < Total(edge.timeouts) =>
            Total(edge'.fetches) = Total(edge.fetches) + 1]_vars
    /\ (<>[](Total(edge.timeouts) > 0) => []<><<EdgeTimeoutFire>>_vars)

\* C20 witness: a test whose invocation threw has ended: testing is null
\* and its refresh is pending.
C20_Witness ==
    /\ edge.mounted /\ edge.lastTest.outcome = "throw" /\ edge.testing = "null"
    /\ edge.timeouts.live = 1 /\ Total(edge.tests) = 0

\* stats.tables of a stats value is in non-increasing order of row_count.
SortedDesc(tables) ==
    \A i, j \in DOMAIN tables : i < j => tables[i].row_count >= tables[j].row_count

\* C21: after every successful fetchSystemStats call stats.tables is sorted
\* by row_count in non-increasing order, whatever the counts and whichever
\* count queries failed (so is tableStats of every call past Promise.all).
C21_TablesSortedDescending ==
    /\ sys.stats.published =>
          (Len(sys.stats.tables) = NumTables /\ SortedDesc(sys.stats.tables))
    /\ \A i \in DOMAIN sys.cycles :
          sys.cycles[i].phase # "counts" => SortedDesc(sys.cycles[i].tableStats)

\* C21 witness: the published tables are not in TABLE_CONFIG order: the
\* second table, with more rows, comes first.
C21_Witness ==
    /\ sys.mounted /\ sys.stats.published
    /\ sys.stats.tables[1].table_name = TABLE_CONFIG[2]
    /\ sys.stats.tables[1].row_count > sys.stats.tables[2].row_count

\* Published tables with equal row counts (a failed count query among them).
C21_WitnessTie ==
    /\ sys.mounted /\ sys.stats.published
    /\ Len(sys.stats.queryErrors) = 1
    /\ sys.stats.tables[1].row_count = sys.stats.tables[2].row_count

\* ------------------------------------------------ C22
\* C22: whenever the modal is mounted or re-rendered with another value of
\* open or of visibleWidgets, its switches afterwards are exactly the seven
\* DEFAULT_WIDGETS keys in default order, each visible iff its key is in
\* the new visibleWidgets: whatever was toggled or reset before is gone.
ModalEffectRuns ==
    /\ modal'.mounted
    /\ \/ ~modal.mounted
       \/ modal'.open # modal.open
       \/ modal'.visibleWidgets # modal.visibleWidgets

C22_ReinitialisedFromProps ==
    [][ModalEffectRuns =>
          /\ Len(modal'.widgets) = Len(DEFAULT_WIDGETS)
          /\ \A i \in DOMAIN DEFAULT_WIDGETS :
                /\ modal'.widgets[i].key = DEFAULT_WIDGETS[i]
                /\ modal'.widgets[i].visible <=> (DEFAULT_WIDGETS[i] \in modal'.visibleWidgets)]_vars

\* The modal was reopened over switches that differed from the props.
C22_Witness ==
    /\ modal.mounted /\ modal.open
    /\ modal.last.event = "props" /\ modal.last.dirty
    /\ modal.visibleWidgets = {"leads", "deals", "leadStatus"}
    /\ modal.widgets = InitialWidgets(modal.visibleWidgets)

\* ------------------------------------------------ C23
\* C23: 'Reset to Default' leaves all seven switches on whatever they and
\* visibleWidgets were, changes nothing else and calls neither onSave nor
\* onOpenChange; a Save directly after it passes all seven keys to onSave.
C23_ResetMakesAllVisible ==
    [][/\ modal'.last.event = "reset" =>
            /\ Len(modal'.widgets) = Len(DEFAULT_WIDGETS)
            /\ \A i \in DOMAIN DEFAULT_WIDGETS :
                  /\ modal'.widgets[i].key = DEFAULT_WIDGETS[i]
                  /\ modal'.widgets[i].visible
            /\ modal'.last.call = NoCall
            /\ modal'.open = modal.open
            /\ modal'.visibleWidgets = modal.visibleWidgets
            /\ modal'.isSaving = modal.isSaving
       /\ (modal.last.event = "reset" /\ modal'.last.event = "save") =>
            modal'.last.call = [fn |-> "onSave", arg |-> DEFAULT_WIDGETS]]_vars

\* Saved directly after a reset, while the props name no widget.
C23_Witness ==
    /\ modal.mounted
    /\ modal.visibleWidgets = {}
    /\ modal.last.event = "save" /\ modal.last.after = "reset"
    /\ modal.last.call = [fn |-> "onSave", arg |-> DEFAULT_WIDGETS]

\* Reset over switches that were all off.
C23_WitnessReset ==
    /\ modal.mounted
    /\ modal.visibleWidgets = {}
    /\ modal.last.event = "reset" /\ modal.last.after = "props"
    /\ \A i \in DOMAIN modal.widgets : modal.widgets[i].visible

\* ------------------------------------------------ C24
\* C24: getHealthStatus follows one precedence: no stats gives 'unknown';
\* else any query error gives 'Degraded', whatever the keep-alive status;
\* else keep-alive 'error' gives 'Error'; else 'warning' gives 'Warning';
\* else a positive total gives 'Healthy' for 'active' and 'unknown' alike;
\* else 'No Data'.  'Healthy' is never shown with query errors or with
\* a keep-alive status of 'error' or 'warning'.
C24_HealthPrecedence ==
    health.status # "none" =>
        LET st == health.stats
            errs == st.published /\ st.queryErrors # <<>>
            clean == st.published /\ st.queryErrors = <<>>
        IN /\ ~st.published => health.status = "unknown"
           /\ errs => health.status = "Degraded"
           /\ (clean /\ st.keepAliveStatus = "error") => health.status = "Error"
           /\ (clean /\ st.keepAliveStatus = "warning") => health.status = "Warning"
           /\ (clean /\ st.keepAliveStatus \in {"active", "unknown"} /\ st.totalRecords > 0)
                 => health.status = "Healthy"
           /\ (clean /\ st.keepAliveStatus \in {"active", "unknown"} /\ st.totalRecords <= 0)
                 => health.status = "No Data"
           /\ health.status = "Healthy" =>
                 /\ st.keepAliveStatus \notin {"error", "warning"}
                 /\ st.queryErrors = <<>>

\* A query error with a keep-alive error shows 'Degraded'.
C24_Witness ==
    /\ health.status = "Degraded"
    /\ health.stats.keepAliveStatus = "error"
    /\ health.stats.totalRecords > 0

\* An unknown keep-alive status with rows shows 'Healthy'.
C24_WitnessUnknown ==
    /\ health.status = "Healthy"
    /\ health.stats.keepAliveStatus = "unknown"

\* ------------------------------------------------ C25
\* C25: while an invocation of function f by handleTestFunction is in
\* flight, testing equals f, so that no second invocation of f is in flight
\* at the same time.
C25_TestingWhileInFlight ==
    edge.mounted =>
        \A f \in EdgeFunctions :
            edge.inFlight[f] > 0 => (edge.testing = f /\ edge.inFlight[f] = 1)

\* The consequence drawn from it: no function has two invocations of one
\* instance in flight at once.
C25_NoSecondInvocation ==
    \A f \in EdgeFunctions : edge.inFlight[f] <= 1

\* ------------------------------------------------ C26
\* C26: once a monitoring view is torn down, no fetch cycle is started on
\* its behalf: not by an interval tick, not by the delayed refresh that
\* handleTestKeepAlive or handleTestFunction scheduled, not by a test
\* invocation that was in flight at the teardown; and its state stays as
\* the teardown left it.
C26_NothingStartsAfterTeardown ==
    [][/\ (~cron.mounted /\ ~cron'.mounted) =>
            /\ cron'.fetches.orphan <= cron.fetches.orphan
            /\ cron'.keepAlive = cron.keepAlive
            /\ cron'.loading = cron.loading
            /\ cron'.testing = cron.testing
       /\ (~edge.mounted /\ ~edge'.mounted) =>
            /\ edge'.fetches.orphan <= edge.fetches.orphan
            /\ edge'.functions = edge.functions
            /\ edge'.loading = edge.loading
            /\ edge'.testing = edge.testing
       /\ (~sys.mounted /\ ~sys'.mounted) =>
            /\ sys'.orphans <= sys.orphans
            /\ sys'.stats = sys.stats
            /\ sys'.loading = sys.loading
            /\ sys'.error = sys.error]_vars

\* The part of it that concerns the interval and the component state only:
\* a torn-down view has no interval left.
C26_NoIntervalAfterTeardown ==
    /\ ~cron.mounted => cron.intervals = 0
    /\ ~sys.mounted => sys.intervals = 0

====
